---- MODULE Spec2Model ----
(***************************************************************************)
(* The clustering engine of banking_customer_segmentation.py               *)
(* (banking_kmeans, calculate_banking_distance) and customer_analysis.py   *)
(* (advanced_kmeans, calculate_distance).                                  *)
(*                                                                         *)
(* Arithmetic.  The programs compute with Python floats; the model         *)
(* computes the same quantities exactly, as integers in a fixed unit:      *)
(*   - a population of n Records is stored in units of 1/Denom(n), with    *)
(*     Denom(n) = lcm(1..n), so that the mean of any j <= n stored values  *)
(*     is again an integer;                                                *)
(*   - a normalized value (a *_norm field, or raw/reference_max inside     *)
(*     calculate_distance) is in units of 1/(10 * Denom(n)): the inputs    *)
(*     are tenths of the reference maximum;                                *)
(*   - a weight is in hundredths (0.05 is 5);                              *)
(*   - a distance is represented by its square (math.sqrt is strictly      *)
(*     increasing on the non-negative numbers, so every comparison, min    *)
(*     and test against 0 the programs make on distances has the same      *)
(*     outcome on the squares).                                            *)
(***************************************************************************)
EXTENDS Integers, Sequences, FiniteSets, TLC

\* ---------------------------------------------------------------- bounds
\* Largest population size enumerated.
MaxN == 4
\* The first varied feature of a Record takes 0..MaxVal tenths of its reference maximum.
MaxVal == 2
\* The second varied feature takes 0..MaxVal2 tenths of its reference maximum.
MaxVal2 == 1
\* Iteration caps enumerated: 0..MaxIter, and the default cap.
MaxIter == 1
\* Largest population size enumerated when two runs are compared.
MaxNTwo == 2
\* A field outside the clustering features takes the values 0..MaxExtra in a
\* direct distance call, and MaxExtra in the Records of a clustering run.
MaxExtra == 1
\* The raw field revenuecontribution takes the values 0..MaxRevenue.
MaxRevenue == 1
\* Largest cluster count when the update step is applied on its own.
MaxKUpdate == 3

\* ---------------------------------------------------- program constants
\* def banking_kmeans(customers, k=5, max_iterations=50)
DefaultMaxIterations == 50
\* abs(old - new) > 0.01: the tolerance is 1/ToleranceInv
ToleranceInv == 100
\* main(): banking_kmeans(customers, k=5)
MainK == 5

VARIABLES
    prog,           \* "banking" (banking_kmeans) or "advanced" (advanced_kmeans)
    customers,      \* the population, in iteration order: a sequence of Records
    k,              \* the cluster count passed in
    max_iterations, \* the iteration cap passed in
    runs,           \* the independent runs of the clustering over this input
    pc,             \* per run: the position in the function (the loop's state)
    result,         \* per run: "running", "returned" or "raised"
    error,          \* per run: the exception raised, "none" otherwise
    iteration,      \* per run: how many loop bodies have been entered
    centroids,      \* per run: the list `centroids`
    clusters,       \* per run: the list `clusters` (lists of indices into customers)
    new_centroids,  \* per run: the list `new_centroids`
    label,          \* per run: customer index -> its 'cluster' field (NoLabel: absent)
    seed_ids,       \* per run, history: indices of the Records copied as seeds
    centroid_log,   \* per run, history: the centroid list after seeding and each iteration
    wcss_log,       \* per run, history: within-cluster cost at the end of each iteration
    call,           \* a direct call of a distance function: its arguments and result
    main_pc,        \* the step main() is at ("idle": main() is not running)
    main_error,     \* the exception that ended main(), "none" otherwise
    csv_fault,      \* what is wrong with the input file main() loads, "none" otherwise
    revenuecontribution, \* per customer: the raw field revenuecontribution
    output_file     \* banking_customer_segments_enhanced.csv as main() wrote it

mainVars == <<main_pc, main_error, csv_fault, revenuecontribution, output_file>>

vars == <<prog, customers, k, max_iterations, runs, pc, result, error, iteration,
          centroids, clusters, new_centroids, label, seed_ids, centroid_log, wcss_log,
          call, mainVars>>

NoLabel == -1
NoCall == [fn |-> "none"]

\* ------------------------------------------------------------ arithmetic
Abs(x) == IF x < 0 THEN -x ELSE x

RECURSIVE GCD(_, _)
GCD(a, b) == IF b = 0 THEN a ELSE GCD(b, a % b)

RECURSIVE Denom(_)
Denom(n) == IF n <= 1 THEN 1 ELSE (Denom(n - 1) * n) \div GCD(Denom(n - 1), n)

\* 1.0 on the normalized scale, in model units.
One == 10 * Denom(Len(customers))

RECURSIVE SumSeq(_)
SumSeq(s) == IF s = <<>> THEN 0 ELSE Head(s) + SumSeq(Tail(s))

RECURSIVE MinSeq(_)
MinSeq(s) == IF Len(s) = 1 THEN s[1]
             ELSE LET m == MinSeq(Tail(s)) IN IF s[1] <= m THEN s[1] ELSE m

\* list.index(x): the first position holding x (0-based, as in the code).
IndexOf(s, x) == (CHOOSE i \in 1..Len(s) : s[i] = x /\ \A j \in 1..(i - 1) : s[j] # x) - 1

\* -------------------------------------------------------------- features
BankingFeatures ==
    <<"age_norm", "income_norm", "tenure_norm", "balance_norm", "volatility_norm",
      "loan_norm", "credit_norm", "utilization_norm", "delinquency_norm",
      "transactions_norm", "digital_norm", "dormant_norm">>

AdvancedFeatures ==
    <<"age", "annual_income", "spending_score", "total_purchases",
      "avg_order_value", "days_since_last_purchase", "email_opens">>

features == IF prog = "banking" THEN BankingFeatures ELSE AdvancedFeatures

Range(s) == {s[i] : i \in 1..Len(s)}

\* weights of calculate_banking_distance, in hundredths
BankingWeights ==
    [age_norm |-> 5, income_norm |-> 15, tenure_norm |-> 10, balance_norm |-> 15,
     volatility_norm |-> 5, loan_norm |-> 10, credit_norm |-> 10,
     utilization_norm |-> 5, delinquency_norm |-> 5, transactions_norm |-> 10,
     digital_norm |-> 5, dormant_norm |-> 5]

\* weights of calculate_distance, in hundredths
AdvancedWeights ==
    [age |-> 10, annual_income |-> 20, spending_score |-> 25, total_purchases |-> 15,
     avg_order_value |-> 15, days_since_last_purchase |-> 10, email_opens |-> 5]

\* the divisors calculate_distance normalizes by
AdvancedRefMax ==
    [age |-> 80, annual_income |-> 200000, spending_score |-> 100,
     total_purchases |-> 60, avg_order_value |-> 200,
     days_since_last_purchase |-> 180, email_opens |-> 25]


\* -------------------------------------------------------------- distance
\* A stored clustering field equal to 1.0, in model units: banking_kmeans clusters
\* the *_norm fields, advanced_kmeans the raw fields.
StoredOne == IF prog = "banking" THEN One ELSE Denom(Len(customers))

\* Mutant: the weighted differences are summed without being squared.
RECURSIVE BankingSumUnsquared(_, _, _, _)
BankingSumUnsquared(customer1, customer2, feats, i) ==
    IF i > Len(feats) THEN 0
    ELSE (IF feats[i] \in DOMAIN BankingWeights
          THEN BankingWeights[feats[i]] * (customer1[feats[i]] - customer2[feats[i]])
          ELSE 0)
         + BankingSumUnsquared(customer1, customer2, feats, i + 1)

banking_distance_unsquared(customer1, customer2, feats) ==
    BankingSumUnsquared(customer1, customer2, feats, 1)

RECURSIVE BankingSum(_, _, _, _)
BankingSum(customer1, customer2, feats, i) ==
    IF i > Len(feats) THEN 0
    ELSE (IF feats[i] \in DOMAIN BankingWeights
          THEN BankingWeights[feats[i]] * ((customer1[feats[i]] - customer2[feats[i]]) ^ 2)
          ELSE 0)
         + BankingSum(customer1, customer2, feats, i + 1)

\* calculate_banking_distance, squared
calculate_banking_distance(customer1, customer2, feats) ==
    BankingSum(customer1, customer2, feats, 1)

\* The exception calculate_banking_distance ends with, "none" when it returns:
\* customer1[feature] and customer2[feature] are read for the features of the
\* weight map only; a missing key is a KeyError.
RECURSIVE BankingError(_, _, _, _)
BankingError(customer1, customer2, feats, i) ==
    IF i > Len(feats) THEN "none"
    ELSE IF /\ feats[i] \in DOMAIN BankingWeights
            /\ (feats[i] \notin DOMAIN customer1 \/ feats[i] \notin DOMAIN customer2)
         THEN "KeyError"
         ELSE BankingError(customer1, customer2, feats, i + 1)

\* val = customer[feature] / reference (1 - ... for days_since_last_purchase)
NormalizedValue(feature, raw) ==
    IF feature = "days_since_last_purchase"
    THEN One - ((raw * 10) \div AdvancedRefMax[feature])
    ELSE (raw * 10) \div AdvancedRefMax[feature]

\* weights.get(feature, 1.0), in hundredths
AdvancedWeight(feature) ==
    IF feature \in DOMAIN AdvancedWeights THEN AdvancedWeights[feature] ELSE 100

\* The loop of calculate_distance from feature i on. val1 and val2 are the
\* locals as the previous feature left them: a feature outside the if/elif
\* chain assigns neither, and the sum goes on with the old values.
RECURSIVE AdvancedSum(_, _, _, _, _, _)
AdvancedSum(customer1, customer2, feats, i, val1, val2) ==
    IF i > Len(feats) THEN 0
    ELSE LET listed == feats[i] \in DOMAIN AdvancedRefMax
             v1 == IF listed THEN NormalizedValue(feats[i], customer1[feats[i]]) ELSE val1
             v2 == IF listed THEN NormalizedValue(feats[i], customer2[feats[i]]) ELSE val2
         IN  AdvancedWeight(feats[i]) * ((v1 - v2) ^ 2)
             + AdvancedSum(customer1, customer2, feats, i + 1, v1, v2)

\* calculate_distance, squared
calculate_distance(customer1, customer2, feats) ==
    AdvancedSum(customer1, customer2, feats, 1, 0, 0)

\* The exception calculate_distance ends with, "none" when it returns: a
\* missing key of a feature of the if/elif chain is a KeyError; a first
\* feature outside the chain leaves val1 unbound (UnboundLocalError).
RECURSIVE AdvancedError(_, _, _, _)
AdvancedError(customer1, customer2, feats, i) ==
    IF i > Len(feats) THEN "none"
    ELSE IF feats[i] \in DOMAIN AdvancedRefMax
         THEN IF feats[i] \notin DOMAIN customer1 \/ feats[i] \notin DOMAIN customer2
              THEN "KeyError"
              ELSE AdvancedError(customer1, customer2, feats, i + 1)
         ELSE IF i = 1 THEN "UnboundLocalError"
              ELSE AdvancedError(customer1, customer2, feats, i + 1)

\* the distance function the running program calls
Distance(customer1, customer2) ==
    IF prog = "banking"
    THEN calculate_banking_distance(customer1, customer2, features)
    ELSE calculate_distance(customer1, customer2, features)

\* --------------------------------------------------------------- seeding
\* Mutant: the distance to the centroid chosen last instead of the nearest one.
distance_to_last_centroid(customer, cents) == Distance(customer, cents[Len(cents)])

\* min([distance(customer, centroid) for centroid in centroids])
min_distance_to_centroids(customer, cents) ==
    MinSeq([j \in 1..Len(cents) |-> Distance(customer, cents[j])])

\* Mutant: among customers at the same largest distance the last one wins.
RECURSIVE ScanBestLast(_, _, _, _)
ScanBestLast(cents, i, max_distance, best) ==
    IF i > Len(customers) THEN best
    ELSE LET d == min_distance_to_centroids(customers[i], cents)
         IN  IF d > max_distance \/ (d = max_distance /\ d > 0)
             THEN ScanBestLast(cents, i + 1, d, i)
             ELSE ScanBestLast(cents, i + 1, max_distance, best)

\* Mutant: a customer no farther than the best so far replaces it, so a
\* customer at distance 0 from a chosen centroid can be chosen.
RECURSIVE ScanBestOrEqual(_, _, _, _)
ScanBestOrEqual(cents, i, max_distance, best) ==
    IF i > Len(customers) THEN best
    ELSE LET d == min_distance_to_centroids(customers[i], cents)
         IN  IF d >= max_distance
             THEN ScanBestOrEqual(cents, i + 1, d, i)
             ELSE ScanBestOrEqual(cents, i + 1, max_distance, best)

\* `for customer in customers`: the index of best_customer, 0 for None
RECURSIVE ScanBest(_, _, _, _)
ScanBest(cents, i, max_distance, best) ==
    IF i > Len(customers) THEN best
    ELSE LET d == min_distance_to_centroids(customers[i], cents)
         IN  IF d > max_distance
             THEN ScanBest(cents, i + 1, d, i)
             ELSE ScanBest(cents, i + 1, max_distance, best)

best_customer(cents) == ScanBest(cents, 1, 0, 0)

\* `for _ in range(k-1)`: ids are the indices of the Records copied so far
RECURSIVE SeedRounds(_, _)
SeedRounds(ids, rounds) ==
    IF rounds <= 0 THEN ids
    ELSE LET best == best_customer([j \in 1..Len(ids) |-> customers[ids[j]]])
         IN  SeedRounds(IF best # 0 THEN Append(ids, best) ELSE ids, rounds - 1)

\* ------------------------------------------------------------ assignment
\* Mutant: among centroids at the same smallest distance the last one wins.
closest_cluster_last(customer, cents) ==
    LET distances == [j \in 1..Len(cents) |-> Distance(customer, cents[j])]
    IN  (CHOOSE i \in 1..Len(cents) :
            /\ distances[i] = MinSeq(distances)
            /\ \A j \in (i + 1)..Len(cents) : distances[j] # MinSeq(distances)) - 1

\* distances.index(min(distances)), 0-based
closest_cluster(customer, cents) ==
    LET distances == [j \in 1..Len(cents) |-> Distance(customer, cents[j])]
    IN  IndexOf(distances, MinSeq(distances))

\* Mutant: the cluster lists are created once and kept across iterations.
ClustersKept(kk) == IF iteration[1] >= 1 THEN clusters[1] ELSE [j \in 1..kk |-> <<>>]

\* clusters = [[] for _ in range(k)]
EmptyClusters(kk) == [j \in 1..kk |-> <<>>]

\* Mutant: customer i goes to cluster i mod k, whatever its distances.
RECURSIVE AssignRoundRobin(_, _, _)
AssignRoundRobin(cents, i, cl) ==
    IF i > Len(customers) THEN [clusters |-> cl, raised |-> FALSE]
    ELSE IF Len(cl) = 0 THEN [clusters |-> cl, raised |-> TRUE]
         ELSE AssignRoundRobin(cents, i + 1,
                               [cl EXCEPT ![((i - 1) % Len(cl)) + 1] = Append(@, i)])

\* Mutant: the centroid of a cluster is recomputed as soon as a customer is
\* appended to it, and the next customer is measured against the changed list.
RECURSIVE AssignOnline(_, _, _)
AssignOnline(cents, i, cl) ==
    IF i > Len(customers) THEN [clusters |-> cl, raised |-> FALSE]
    ELSE LET c == closest_cluster(customers[i], cents)
         IN  IF c >= Len(cl) THEN [clusters |-> cl, raised |-> TRUE]
             ELSE LET grown == Append(cl[c + 1], i)
                  IN  AssignOnline([cents EXCEPT ![c + 1] =
                                       [f \in Range(features) |->
                                           SumSeq([m \in 1..Len(grown) |->
                                                      customers[grown[m]][f]])
                                               \div Len(grown)]],
                                   i + 1, [cl EXCEPT ![c + 1] = grown])

\* `for customer in customers: clusters[closest_cluster].append(customer)`;
\* raised: clusters[closest_cluster] is out of range (IndexError)
RECURSIVE AssignFrom(_, _, _)
AssignFrom(cents, i, cl) ==
    IF i > Len(customers) THEN [clusters |-> cl, raised |-> FALSE]
    ELSE LET c == closest_cluster(customers[i], cents)
         IN  IF c >= Len(cl) THEN [clusters |-> cl, raised |-> TRUE]
             ELSE AssignFrom(cents, i + 1, [cl EXCEPT ![c + 1] = Append(@, i)])

\* ---------------------------------------------------------------- update
\* Mutant: the first member's value instead of the mean.
FirstMemberValue(cluster, feature) == customers[cluster[1]][feature]

\* sum(values) / len(values) over the cluster's members
FeatureMean(cluster, feature) ==
    SumSeq([m \in 1..Len(cluster) |-> customers[cluster[m]][feature]]) \div Len(cluster)

\* Mutant: the mean is taken over every field of the first member.
new_centroid_all_fields(cluster) ==
    [f \in DOMAIN customers[cluster[1]] |-> FeatureMean(cluster, f)]

\* new_centroid = {}; `for feature in features: new_centroid[feature] = ...`
new_centroid(cluster) == [f \in Range(features) |-> FeatureMean(cluster, f)]

\* Mutant: an empty cluster takes the centroid appended last to the list being
\* built (the first old centroid when the list is still empty).
RECURSIVE UpdateFromNewList(_, _, _, _)
UpdateFromNewList(cents, cl, i, new) ==
    IF i > Len(cl) THEN [new_centroids |-> new, raised |-> FALSE]
    ELSE IF cl[i] # <<>>
         THEN UpdateFromNewList(cents, cl, i + 1, Append(new, new_centroid(cl[i])))
         ELSE IF Len(new) >= Len(cents)
              THEN [new_centroids |-> new, raised |-> TRUE]
              ELSE UpdateFromNewList(cents, cl, i + 1,
                                     Append(new, IF new = <<>> THEN cents[1]
                                                 ELSE new[Len(new)]))

\* `for cluster in clusters`; raised: centroids[len(new_centroids)] is out of
\* range (IndexError)
RECURSIVE UpdateFrom(_, _, _, _)
UpdateFrom(cents, cl, i, new) ==
    IF i > Len(cl) THEN [new_centroids |-> new, raised |-> FALSE]
    ELSE IF cl[i] # <<>>
         THEN UpdateFrom(cents, cl, i + 1, Append(new, new_centroid(cl[i])))
         ELSE IF Len(new) >= Len(cents)
              THEN [new_centroids |-> new, raised |-> TRUE]
              ELSE UpdateFrom(cents, cl, i + 1, Append(new, cents[Len(new) + 1]))

\* ----------------------------------------------------------- convergence
\* Mutant: the comparison never finds the centroids within the tolerance.
NeverConverged(cents, new, kk) == FALSE

\* abs(centroids[i][feature] - new_centroids[i][feature]) > 0.01
ExceedsTolerance(old, new) == ToleranceInv * Abs(old - new) > StoredOne

\* the value of `converged` after the comparison loops
Converged(cents, new, kk) ==
    \A i \in 1..kk : \A f \in Range(features) : ~ExceedsTolerance(cents[i][f], new[i][f])

\* Sum over the Records of the squared weighted distance to the centroid of
\* the cluster that holds them.
WithinClusterCost(cl, cents) ==
    SumSeq([j \in 1..Len(cl) |->
              SumSeq([m \in 1..Len(cl[j]) |-> Distance(customers[cl[j][m]], cents[j])])])

\* ---------------------------------------------------------------- inputs
FeaturesOf(p) == IF p = "banking" THEN BankingFeatures ELSE AdvancedFeatures

\* The stored value of j tenths of the reference maximum, in a population of n:
\* the *_norm field j/10 for banking_kmeans, the raw field j * reference/10 for
\* advanced_kmeans.
StoredValue(p, f, j, n) ==
    IF p = "banking" THEN j * Denom(n) ELSE j * (AdvancedRefMax[f] \div 10) * Denom(n)

\* A field the Records carry that is in neither weight map and in neither
\* clustering feature list: revenue_norm (preprocess_banking_data),
\* website_visits (generate_customer_data).
ExtraFeature(p) == IF p = "banking" THEN "revenue_norm" ELSE "website_visits"

\* The fields of a whole Record.
AllFields(p) == Range(FeaturesOf(p)) \cup {ExtraFeature(p)}

\* A Record whose first two clustering features are a and b tenths of their
\* reference maxima, every other clustering feature being 0; the field outside
\* the clustering features holds MaxExtra.
Record(p, n, a, b) ==
    [f \in AllFields(p) |->
        IF f = FeaturesOf(p)[1] THEN StoredValue(p, f, a, n)
        ELSE IF f = FeaturesOf(p)[2] THEN StoredValue(p, f, b, n)
        ELSE IF f = ExtraFeature(p) THEN MaxExtra
        ELSE 0]

Records(p, n) == {Record(p, n, a, b) : a \in 0..MaxVal, b \in 0..MaxVal2}

Populations(p, maxn) == UNION {[1..n -> Records(p, n)] : n \in 0..maxn}

\* Populations given Record by Record, in tenths of the reference maxima of the
\* two varied features: the six Records (0,0),(0,0.1),(1,1),(0.9,1),(0.5,0.5),
\* (0.5,0.5) of the documented scenario, and two populations of four in which
\* a Record changes cluster in the second iteration.
ScenarioTenths ==
    { << <<0, 0>>, <<0, 1>>, <<10, 10>>, <<9, 10>>, <<5, 5>>, <<5, 5>> >>,
      << <<0, 1>>, <<0, 2>>, <<0, 3>>, <<1, 0>> >>,
      << <<0, 0>>, <<1, 3>>, <<3, 1>>, <<4, 1>> >> }

PopulationOf(p, s) == [i \in 1..Len(s) |-> Record(p, Len(s), s[i][1], s[i][2])]

\* Two clustering features that have the same weight in the program's weight
\* map (0.15 each in both programs).
UniformFeatures(p) ==
    IF p = "banking" THEN <<"income_norm", "balance_norm">>
    ELSE <<"total_purchases", "avg_order_value">>

\* The six Records (0,0),(0,0.1),(1,1),(0.9,1),(0.5,0.5),(0.5,0.5), in tenths.
SixRecordTenths == << <<0, 0>>, <<0, 1>>, <<10, 10>>, <<9, 10>>, <<5, 5>>, <<5, 5>> >>

\* The six Records given on the two equally weighted features, every other
\* clustering feature being 0 and the field outside them MaxExtra.
UniformScenario(p) ==
    [i \in 1..Len(SixRecordTenths) |->
        [f \in AllFields(p) |->
            IF f = UniformFeatures(p)[1]
            THEN StoredValue(p, f, SixRecordTenths[i][1], Len(SixRecordTenths))
            ELSE IF f = UniformFeatures(p)[2]
            THEN StoredValue(p, f, SixRecordTenths[i][2], Len(SixRecordTenths))
            ELSE IF f = ExtraFeature(p) THEN MaxExtra
            ELSE 0]]

\* The first clustering feature of four Records in units of 1/120 of its
\* reference maximum (1/(10 * Denom(4))): 0, 4/120, 0, 0. Their mean is 1/120,
\* which is 0.0083 on the normalized scale and, for the raw field age of
\* advanced_kmeans, 0.67 on the raw scale.
FineUnits == <<0, 4, 0, 0>>

FineScenario(p) ==
    [i \in 1..Len(FineUnits) |->
        [f \in AllFields(p) |->
            IF f = FeaturesOf(p)[1]
            THEN IF p = "banking" THEN FineUnits[i]
                 ELSE FineUnits[i] * (AdvancedRefMax[f] \div 10)
            ELSE IF f = ExtraFeature(p) THEN MaxExtra
            ELSE 0]]

Scenarios(p) ==
    {PopulationOf(p, s) : s \in ScenarioTenths} \cup {UniformScenario(p), FineScenario(p)}

Caps == (0..MaxIter) \cup {DefaultMaxIterations}

\* the output file before main() opens it
NoFile == [exists |-> FALSE, rows |-> <<>>]

\* main() is not running
MainIdle ==
    /\ main_pc = "idle" /\ main_error = "none" /\ csv_fault = "none"
    /\ revenuecontribution = <<>> /\ output_file = NoFile

InitRun(rs) ==
    /\ runs = rs
    /\ pc = [r \in rs |-> "INITIALIZING"]
    /\ result = [r \in rs |-> "running"]
    /\ error = [r \in rs |-> "none"]
    /\ iteration = [r \in rs |-> 0]
    /\ centroids = [r \in rs |-> <<>>]
    /\ clusters = [r \in rs |-> <<>>]
    /\ new_centroids = [r \in rs |-> <<>>]
    /\ label = [r \in rs |-> [i \in 1..Len(customers) |-> NoLabel]]
    /\ seed_ids = [r \in rs |-> <<>>]
    /\ centroid_log = [r \in rs |-> <<>>]
    /\ wcss_log = [r \in rs |-> <<>>]

Init ==
    /\ prog \in {"banking", "advanced"}
    /\ customers \in Populations(prog, MaxN) \cup Scenarios(prog)
    /\ k \in 0..(Len(customers) + 1)
    /\ max_iterations \in Caps
    /\ InitRun({1})
    /\ call = NoCall
    /\ MainIdle

\* Two independent runs over the same input.
InitTwo ==
    /\ prog \in {"banking", "advanced"}
    /\ customers \in Populations(prog, MaxNTwo) \cup Scenarios(prog)
    /\ k \in 0..(Len(customers) + 1)
    /\ max_iterations \in Caps
    /\ InitRun({1, 2})
    /\ call = NoCall
    /\ MainIdle

\* --------------------------------------------------------------- actions
Raise(r, exc) ==
    /\ result' = [result EXCEPT ![r] = "raised"]
    /\ error' = [error EXCEPT ![r] = exc]

\* Mutant: the first centroid is a Record picked at random.
SeedRandomFirst(r) ==
    /\ result[r] = "running" /\ pc[r] = "INITIALIZING" /\ customers # <<>>
    /\ \E first \in 1..Len(customers) :
       \E ids \in {SeedRounds(<<first>>, k - 1)} :
       \E cents \in {[j \in 1..Len(ids) |-> customers[ids[j]]]} :
           /\ seed_ids' = [seed_ids EXCEPT ![r] = ids]
           /\ centroids' = [centroids EXCEPT ![r] = cents]
           /\ centroid_log' = [centroid_log EXCEPT ![r] = <<cents>>]
           /\ pc' = [pc EXCEPT ![r] =
                       IF max_iterations > 0 THEN "ASSIGNING" ELSE "ITERATION_EXHAUSTED"]
    /\ UNCHANGED <<prog, customers, k, max_iterations, runs, result, error, iteration,
                   clusters, new_centroids, label, wcss_log, call>>
    /\ UNCHANGED mainVars

\* centroids = [customers[0].copy()], then k-1 rounds of farthest-point choice;
\* then the loop head `for iteration in range(max_iterations)`.
Seed(r) ==
    /\ result[r] = "running" /\ pc[r] = "INITIALIZING"
    /\ IF customers = <<>>
       THEN /\ Raise(r, "IndexError")
            /\ UNCHANGED <<pc, centroids, seed_ids, centroid_log>>
       ELSE \E ids \in {SeedRounds(<<1>>, k - 1)} :
            \E cents \in {[j \in 1..Len(ids) |-> customers[ids[j]]]} :
                /\ seed_ids' = [seed_ids EXCEPT ![r] = ids]
                /\ centroids' = [centroids EXCEPT ![r] = cents]
                /\ centroid_log' = [centroid_log EXCEPT ![r] = <<cents>>]
                /\ pc' = [pc EXCEPT ![r] =
                            IF max_iterations > 0 THEN "ASSIGNING" ELSE "ITERATION_EXHAUSTED"]
                /\ UNCHANGED <<result, error>>
    /\ UNCHANGED <<prog, customers, k, max_iterations, runs, iteration, clusters,
                   new_centroids, label, wcss_log, call>>
    /\ UNCHANGED mainVars

\* One assignment pass: clusters rebuilt from k empty lists, every customer
\* appended to the cluster of its closest centroid.
Assign(r) ==
    /\ result[r] = "running" /\ pc[r] = "ASSIGNING"
    /\ \E pass \in {AssignFrom(centroids[r], 1, EmptyClusters(k))} :
           /\ clusters' = [clusters EXCEPT ![r] = pass.clusters]
           /\ iteration' = [iteration EXCEPT ![r] = @ + 1]
           /\ IF pass.raised
              THEN Raise(r, "IndexError") /\ UNCHANGED pc
              ELSE pc' = [pc EXCEPT ![r] = "UPDATING"] /\ UNCHANGED <<result, error>>
    /\ UNCHANGED <<prog, customers, k, max_iterations, runs, centroids, new_centroids,
                   label, seed_ids, centroid_log, wcss_log, call>>
    /\ UNCHANGED mainVars

\* new_centroids built cluster by cluster.
Update(r) ==
    /\ result[r] = "running" /\ pc[r] = "UPDATING"
    /\ \E upd \in {UpdateFrom(centroids[r], clusters[r], 1, <<>>)} :
           /\ new_centroids' = [new_centroids EXCEPT ![r] = upd.new_centroids]
           /\ IF upd.raised
              THEN Raise(r, "IndexError") /\ UNCHANGED pc
              ELSE pc' = [pc EXCEPT ![r] = "CHECKING"] /\ UNCHANGED <<result, error>>
    /\ UNCHANGED <<prog, customers, k, max_iterations, runs, iteration, centroids,
                   clusters, label, seed_ids, centroid_log, wcss_log, call>>
    /\ UNCHANGED mainVars

\* The convergence comparison, `centroids = new_centroids`, `if converged: break`,
\* and the loop head of the next iteration.
Check(r) ==
    /\ result[r] = "running" /\ pc[r] = "CHECKING"
    /\ LET converged == Converged(centroids[r], new_centroids[r], k)
       IN  pc' = [pc EXCEPT ![r] =
                    IF converged THEN "CONVERGED"
                    ELSE IF iteration[r] < max_iterations THEN "ASSIGNING"
                    ELSE "ITERATION_EXHAUSTED"]
    /\ centroids' = [centroids EXCEPT ![r] = new_centroids[r]]
    /\ centroid_log' = [centroid_log EXCEPT ![r] = Append(@, new_centroids[r])]
    /\ wcss_log' = [wcss_log EXCEPT ![r] =
                      Append(@, WithinClusterCost(clusters[r], new_centroids[r]))]
    /\ UNCHANGED <<prog, customers, k, max_iterations, runs, result, error, iteration,
                   clusters, new_centroids, label, seed_ids, call>>
    /\ UNCHANGED mainVars

\* customer['cluster'] = i for the members of cluster i
Labelled(lab, cl) ==
    [i \in DOMAIN lab |->
        IF \E j \in 1..Len(cl) : i \in Range(cl[j])
        THEN (CHOOSE j \in 1..Len(cl) : i \in Range(cl[j])) - 1
        ELSE lab[i]]

\* Mutant: one more assignment pass, against the final centroids, is made
\* before the labels are written.
LabelAfterReassign(r) ==
    /\ result[r] = "running" /\ pc[r] \in {"CONVERGED", "ITERATION_EXHAUSTED"}
    /\ IF iteration[r] = 0
       THEN Raise(r, "UnboundLocalError") /\ UNCHANGED <<label, clusters>>
       ELSE \E pass \in {AssignFrom(centroids[r], 1, EmptyClusters(k))} :
               /\ clusters' = [clusters EXCEPT ![r] = pass.clusters]
               /\ label' = [label EXCEPT ![r] = Labelled(@, pass.clusters)]
               /\ result' = [result EXCEPT ![r] = "returned"]
               /\ UNCHANGED error
    /\ UNCHANGED <<prog, customers, k, max_iterations, runs, pc, iteration, centroids,
                   new_centroids, seed_ids, centroid_log, wcss_log, call>>
    /\ UNCHANGED mainVars

\* `for i, cluster in enumerate(clusters)` and the return; `clusters` is
\* unbound when the loop body never ran (UnboundLocalError).
Label(r) ==
    /\ result[r] = "running" /\ pc[r] \in {"CONVERGED", "ITERATION_EXHAUSTED"}
    /\ IF iteration[r] = 0
       THEN Raise(r, "UnboundLocalError") /\ UNCHANGED label
       ELSE /\ label' = [label EXCEPT ![r] = Labelled(@, clusters[r])]
            /\ result' = [result EXCEPT ![r] = "returned"]
            /\ UNCHANGED error
    /\ UNCHANGED <<prog, customers, k, max_iterations, runs, pc, iteration, centroids,
                   clusters, new_centroids, seed_ids, centroid_log, wcss_log, call>>
    /\ UNCHANGED mainVars

Next ==
    \/ \E r \in runs : Seed(r)
    \/ \E r \in runs : Assign(r)
    \/ \E r \in runs : Update(r)
    \/ \E r \in runs : Check(r)
    \/ \E r \in runs : Label(r)

Spec == Init /\ [][Next]_vars

SpecTwo == InitTwo /\ [][Next]_vars

\* ------------------------------------------- the distance functions alone
DistanceFunctions == {"calculate_banking_distance", "calculate_distance"}

ProgOf(fn) == IF fn = "calculate_banking_distance" THEN "banking" ELSE "advanced"

\* A whole Record: the clustering features as in Record(p, 1, a, b), the extra
\* field e.
DistanceRecord(p, a, b, e) ==
    [f \in AllFields(p) |-> IF f = ExtraFeature(p) THEN e ELSE Record(p, 1, a, b)[f]]

\* The key sets of the dictionaries passed: whole, without the second
\* clustering feature, without the extra field.
Shapes(p) ==
    {AllFields(p), AllFields(p) \ {FeaturesOf(p)[2]}, AllFields(p) \ {ExtraFeature(p)}}

DistanceRecords(p) ==
    {[f \in D |-> DistanceRecord(p, a, b, e)[f]] :
        a \in 0..MaxVal, b \in 0..MaxVal2, e \in 0..MaxExtra, D \in Shapes(p)}

\* The feature lists passed: the program's own, and that list with the extra
\* field after its first feature or before it.
FeatureLists(p) ==
    {FeaturesOf(p),
     <<FeaturesOf(p)[1], ExtraFeature(p)>> \o Tail(FeaturesOf(p)),
     <<ExtraFeature(p)>> \o FeaturesOf(p)}

\* A call of a distance function on two dictionaries and a feature list; no
\* clustering run.
InitDistance ==
    /\ customers = <<>> /\ k = 0 /\ max_iterations = 0
    /\ InitRun({})
    /\ MainIdle
    /\ \E fn \in DistanceFunctions :
          /\ prog = ProgOf(fn)
          /\ \E a, b \in DistanceRecords(prog) :
             \E feats \in FeatureLists(prog) :
                call = [fn |-> fn, customer1 |-> a, customer2 |-> b,
                        features |-> feats, returned |-> FALSE, raised |-> "none",
                        out |-> 0]

\* The call runs to its return or to the exception that ends it.
CallDistance ==
    /\ call.fn \in DistanceFunctions /\ ~call.returned /\ call.raised = "none"
    /\ \E err \in {IF call.fn = "calculate_banking_distance"
                    THEN BankingError(call.customer1, call.customer2, call.features, 1)
                    ELSE AdvancedError(call.customer1, call.customer2, call.features, 1)} :
          call' = [call EXCEPT
                     !.returned = (err = "none"),
                     !.raised = err,
                     !.out =
                        IF err # "none" THEN 0
                        ELSE IF call.fn = "calculate_banking_distance"
                        THEN calculate_banking_distance(call.customer1, call.customer2,
                                                        call.features)
                        ELSE calculate_distance(call.customer1, call.customer2,
                                                call.features)]
    /\ UNCHANGED <<prog, customers, k, max_iterations, runs, pc, result, error,
                   iteration, centroids, clusters, new_centroids, label, seed_ids,
                   centroid_log, wcss_log>>
    /\ UNCHANGED mainVars

NextDistance == CallDistance

SpecDistance == InitDistance /\ [][NextDistance]_vars


\* ------------------------------------------------ the update step alone
\* The update code applied to a state at the end of an assignment pass: any
\* placing of the Records in k cluster lists (empty lists included), and a
\* centroid list of k or k - 1 Records that vary in their first feature.
Indices(n) == [i \in 1..n |-> i]

\* the cluster lists of the placing a (customer index -> cluster 1..kk), each
\* in population order
ClustersFrom(a, kk) ==
    [j \in 1..kk |-> SelectSeq(Indices(Len(customers)), LAMBDA i : a[i] = j)]

CentroidLists(kk) ==
    UNION {[1..m -> {Record(prog, Len(customers), a, 0) : a \in 0..MaxVal}] :
              m \in {kk - 1, kk}}

InitUpdate ==
    /\ prog \in {"banking", "advanced"}
    /\ customers \in Populations(prog, MaxNTwo) /\ customers # <<>>
    /\ k \in 1..MaxKUpdate
    /\ max_iterations = DefaultMaxIterations
    /\ runs = {1}
    /\ pc = <<"UPDATING">> /\ result = <<"running">> /\ error = <<"none">>
    /\ iteration = <<1>>
    /\ \E cents \in CentroidLists(k) : centroids = <<cents>>
    /\ \E a \in [1..Len(customers) -> 1..k] : clusters = <<ClustersFrom(a, k)>>
    /\ new_centroids = <<(<<>>)>>
    /\ label = <<[i \in 1..Len(customers) |-> NoLabel]>>
    /\ seed_ids = <<(<<>>)>> /\ centroid_log = <<(<<>>)>> /\ wcss_log = <<(<<>>)>>
    /\ call = NoCall
    /\ MainIdle

NextUpdate == Update(1)

SpecUpdate == InitUpdate /\ [][NextUpdate]_vars

\* ---------------------------------------------------------------- main()
\* main() of banking_customer_segmentation.py: load, preprocess, cluster,
\* analyze, insights, report and export, one after the other; no step
\* catches an exception.

\* What can be wrong with the file load_banking_data reads: it does not
\* exist, its header lacks a column, a numeric column holds text.
CsvFaults == {"none", "no_file", "no_column", "not_a_number"}

\* A preprocessed customer whose age_norm and balance_norm are a and bal
\* tenths, every other clustering feature being 0.
MainRecord(n, a, bal) ==
    [f \in Range(BankingFeatures) |->
        IF f = "age_norm" THEN StoredValue("banking", f, a, n)
        ELSE IF f = "balance_norm" THEN StoredValue("banking", f, bal, n)
        ELSE 0]

MainRecords(n) == {MainRecord(n, a, bal) : a \in 0..MaxVal, bal \in 0..MaxVal2}

MainPopulations ==
    UNION {[1..n -> MainRecords(n)] : n \in 0..MaxNTwo}
    \cup {[i \in 1..Len(s) |-> MainRecord(Len(s), s[i][1], s[i][2])] : s \in ScenarioTenths}

InitMain ==
    /\ prog = "banking"
    /\ customers \in MainPopulations
    /\ k = MainK /\ max_iterations = DefaultMaxIterations
    /\ InitRun({1})
    /\ call = NoCall
    /\ main_pc = "LOADING" /\ main_error = "none"
    /\ csv_fault \in CsvFaults
    /\ revenuecontribution \in [1..Len(customers) -> 0..MaxRevenue]
    /\ output_file = NoFile

runVars == <<prog, customers, k, max_iterations, runs, pc, result, error, iteration,
             centroids, clusters, new_centroids, label, seed_ids, centroid_log,
             wcss_log, call>>

\* an exception leaves main() (nothing catches it)
MainAbort(exc) == main_pc' = "ABORTED" /\ main_error' = exc

\* sum(customer['revenuecontribution'] for customer in customers)
total_revenue == SumSeq(revenuecontribution)

\* sum(customer['avgbalance'] for customer in customers); avgbalance is
\* balance_norm * 1000000
total_balance == SumSeq([i \in 1..Len(customers) |-> customers[i]["balance_norm"]])

\* load_banking_data: open() fails on a missing file; row['...'] and
\* int(...)/float(...) fail on the first row read.
MainLoad ==
    /\ main_pc = "LOADING"
    /\ IF csv_fault = "no_file" THEN MainAbort("FileNotFoundError")
       ELSE IF csv_fault = "no_column" /\ customers # <<>> THEN MainAbort("KeyError")
       ELSE IF csv_fault = "not_a_number" /\ customers # <<>> THEN MainAbort("ValueError")
       ELSE main_pc' = "PREPROCESSING" /\ UNCHANGED main_error
    /\ UNCHANGED <<csv_fault, revenuecontribution, output_file, runVars>>

\* preprocess_banking_data: the *_norm fields of every loaded customer
MainPreprocess ==
    /\ main_pc = "PREPROCESSING"
    /\ main_pc' = "CLUSTERING"
    /\ UNCHANGED <<main_error, csv_fault, revenuecontribution, output_file, runVars>>

\* banking_kmeans(customers, k=5), step by step
MainCluster ==
    /\ main_pc = "CLUSTERING"
    /\ Seed(1) \/ Assign(1) \/ Update(1) \/ Check(1) \/ Label(1)

\* banking_kmeans returned, or its exception goes on through main()
MainClustered ==
    /\ main_pc = "CLUSTERING" /\ result[1] # "running"
    /\ IF result[1] = "raised" THEN MainAbort(error[1])
       ELSE main_pc' = "ANALYZING" /\ UNCHANGED main_error
    /\ UNCHANGED <<csv_fault, revenuecontribution, output_file, runVars>>

\* analyze_banking_clusters: cluster_revenue/total_revenue and
\* cluster_balance/total_balance
MainAnalyze ==
    /\ main_pc = "ANALYZING"
    /\ IF total_revenue = 0 \/ total_balance = 0 THEN MainAbort("ZeroDivisionError")
       ELSE main_pc' = "INSIGHTS" /\ UNCHANGED main_error
    /\ UNCHANGED <<csv_fault, revenuecontribution, output_file, runVars>>

\* generate_banking_insights
MainInsights ==
    /\ main_pc = "INSIGHTS"
    /\ main_pc' = "REPORTING"
    /\ UNCHANGED <<main_error, csv_fault, revenuecontribution, output_file, runVars>>

\* create_banking_summary_report up to add_enhanced_segments
MainReport ==
    /\ main_pc = "REPORTING"
    /\ main_pc' = "EXPORTING"
    /\ UNCHANGED <<main_error, csv_fault, revenuecontribution, output_file, runVars>>

\* open('banking_customer_segments_enhanced.csv', 'w')
MainOpen ==
    /\ main_pc = "EXPORTING" /\ ~output_file.exists
    /\ output_file' = [exists |-> TRUE, rows |-> <<>>]
    /\ UNCHANGED <<main_pc, main_error, csv_fault, revenuecontribution, runVars>>

\* writer.writeheader(): the header is row 0
MainWriteHeader ==
    /\ main_pc = "EXPORTING" /\ output_file.exists /\ output_file.rows = <<>>
    /\ output_file' = [output_file EXCEPT !.rows = <<0>>]
    /\ UNCHANGED <<main_pc, main_error, csv_fault, revenuecontribution, runVars>>

\* writer.writerow(output_customer) for the next customer
MainWriteRow ==
    /\ main_pc = "EXPORTING" /\ output_file.exists
    /\ Len(output_file.rows) \in 1..Len(customers)
    /\ output_file' = [output_file EXCEPT !.rows = Append(@, Len(@))]
    /\ UNCHANGED <<main_pc, main_error, csv_fault, revenuecontribution, runVars>>

\* the file is closed, the distributions are printed, main() returns
MainFinish ==
    /\ main_pc = "EXPORTING" /\ output_file.exists
    /\ Len(output_file.rows) = Len(customers) + 1
    /\ main_pc' = "DONE"
    /\ UNCHANGED <<main_error, csv_fault, revenuecontribution, output_file, runVars>>

NextMain ==
    \/ MainLoad \/ MainPreprocess \/ MainCluster \/ MainClustered \/ MainAnalyze
    \/ MainInsights \/ MainReport \/ MainOpen \/ MainWriteHeader \/ MainWriteRow
    \/ MainFinish

SpecMain == InitMain /\ [][NextMain]_vars

\* ================================================================ claims
N == Len(customers)

\* The run r has completed at least one assignment pass, and `clusters` holds
\* the result of the last completed one.
AssignmentDone(r) == iteration[r] >= 1 /\ ~(pc[r] = "ASSIGNING" /\ result[r] = "raised")

\* The positions <<cluster, place>> at which Record i occurs in the cluster lists.
Occurrences(cl, i) ==
    {jm \in (1..Len(cl)) \X (1..N) : jm[2] <= Len(cl[jm[1]]) /\ cl[jm[1]][jm[2]] = i}

\* C1: after every completed assignment pass there are k cluster lists and every
\* Record of the population occurs in them exactly once (so the lists were
\* rebuilt from empty ones, not appended to across iterations).
C1_PartitionAfterAssignment ==
    \A r \in runs :
        AssignmentDone(r) =>
            /\ Len(clusters[r]) = k
            /\ \A i \in 1..N : Cardinality(Occurrences(clusters[r], i)) = 1

\* C1 witness: the second assignment pass of a run over four Records, two clusters.
C1_Witness ==
    \E r \in runs : iteration[r] = 2 /\ pc[r] = "UPDATING" /\ k = 2 /\ N = 4
                    /\ \A j \in 1..k : clusters[r][j] # <<>>

\* C2: for a population of size >= k (k >= 1), once seeding is over there are
\* exactly k centroids, each a copy of some Record until the first update.
C2_ExactlyKCentroids ==
    \A r \in runs :
        (k >= 1 /\ N >= k /\ pc[r] # "INITIALIZING") =>
            /\ Len(centroids[r]) = k
            /\ Len(centroid_log[r]) >= 1 /\ Range(centroid_log[r][1]) \subseteq Range(customers)

\* C3: when the population holds at least k distinct vectors of clustering
\* features, seeding picks k Records, no Record twice.
C3_SeedsPairwiseDistinct ==
    \A r \in runs :
        (k >= 1 /\ pc[r] # "INITIALIZING" /\ Cardinality(Range(customers)) >= k) =>
            /\ Len(seed_ids[r]) = k
            /\ \A a, b \in 1..Len(seed_ids[r]) : a # b => seed_ids[r][a] # seed_ids[r][b]

\* C3 witness: three seeds chosen among four Records of which two are equal.
C3_Witness ==
    \E r \in runs : pc[r] = "ASSIGNING" /\ k = 3 /\ N = 4
                    /\ Cardinality(Range(customers)) = 3 /\ Len(seed_ids[r]) = 3

\* C4: when k <= 0 or k >= population size the run raises
\* InvalidClusterCountError before any centroid is chosen and any Record labelled.
C4_InvalidKRejectedAtEntry ==
    \A r \in runs :
        (k <= 0 \/ k >= N) =>
            /\ centroids[r] = <<>>
            /\ \A i \in 1..N : label[r][i] = NoLabel
            /\ result[r] # "returned"
            /\ (result[r] = "raised" => error[r] = "InvalidClusterCountError")

\* one cluster of two members, every other cluster a singleton
OnePairRestSingletons(cl) ==
    /\ Cardinality({j \in 1..Len(cl) : Len(cl[j]) = 2}) = 1
    /\ \A j \in 1..Len(cl) : Len(cl[j]) \in {1, 2}

\* C5: with N >= 2 Records, k = N - 1 and a cap of at least one iteration the
\* run does not raise, and it returns one cluster of two members and N - 2
\* singletons.
C5_KIsNMinusOne ==
    \A r \in runs :
        (N >= 2 /\ k = N - 1 /\ max_iterations >= 1) =>
            /\ result[r] # "raised"
            /\ (result[r] = "returned" =>
                    Len(clusters[r]) = k /\ OnePairRestSingletons(clusters[r]))

\* C6: for 1 <= k < N and any cap, at most max_iterations loop bodies are
\* entered and the loop ends in CONVERGED or ITERATION_EXHAUSTED.
C6_HaltsInTerminalState ==
    \A r \in runs :
        (1 <= k /\ k < N) =>
            /\ iteration[r] <= max_iterations
            /\ (result[r] # "running" => pc[r] \in {"CONVERGED", "ITERATION_EXHAUSTED"})

\* what a returned run hands back: k centroids, k clusters, every Record
\* labelled with the index of the cluster that holds it
ValidResult(r) ==
    /\ Len(centroids[r]) = k /\ Len(clusters[r]) = k
    /\ \A i \in 1..N : /\ label[r][i] \in 0..(k - 1)
                       /\ i \in Range(clusters[r][label[r][i] + 1])

\* C7: a run that reaches the cap without convergence does not end in an
\* error, and what it returns is a valid result (1 <= k < N).
C7_ExhaustionIsNotAnError ==
    \A r \in runs :
        (1 <= k /\ k < N /\ pc[r] = "ITERATION_EXHAUSTED") =>
            /\ result[r] # "raised"
            /\ (result[r] = "returned" => ValidResult(r))

IsPrefix(s, t) == Len(s) <= Len(t) /\ \A i \in 1..Len(s) : s[i] = t[i]

DistanceBy(fn, a, b, feats) ==
    IF fn = "calculate_banking_distance"
    THEN calculate_banking_distance(a, b, feats)
    ELSE calculate_distance(a, b, feats)

\* the features of the list that carry a weight in the function's weight map
WeightedFeatures(fn, feats) ==
    {f \in Range(feats) :
        f \in DOMAIN (IF fn = "calculate_banking_distance"
                      THEN BankingWeights ELSE AdvancedWeights)}

\* C10: the distance returned for (a, b) is non-negative, equals the distance
\* for (b, a), is 0 for (a, a), and is 0 exactly when a and b agree on every
\* weighted feature.
C10_DistanceIsSymmetricDefinite ==
    (call.fn \in DistanceFunctions /\ call.returned) =>
        LET a == call.customer1
            b == call.customer2
        IN  /\ call.out >= 0
            /\ call.out = DistanceBy(call.fn, b, a, call.features)
            /\ DistanceBy(call.fn, a, a, call.features) = 0
            /\ (call.out = 0) <=>
                   (\A f \in WeightedFeatures(call.fn, call.features) : a[f] = b[f])

\* C10 witness: a call on two Records that differ, with a positive result.
C10_Witness ==
    /\ call.fn = "calculate_banking_distance" /\ call.returned
    /\ call.customer1 # call.customer2 /\ call.out > 0

\* the weight map of the distance function named fn
WeightMap(fn) ==
    IF fn = "calculate_banking_distance" THEN BankingWeights ELSE AdvancedWeights

\* the features of the list that have an entry in the weight map, in order
WeightedOnly(fn, feats) == SelectSeq(feats, LAMBDA f : f \in DOMAIN WeightMap(fn))

\* C11: the distance returned for a feature list is the distance over the
\* features of that list that have a weight: a feature without an entry in the
\* weight map adds nothing, whatever the two values for it.
C11_UnweightedFeatureContributesZero ==
    (call.fn \in DistanceFunctions /\ call.returned) =>
        call.out = DistanceBy(call.fn, call.customer1, call.customer2,
                              WeightedOnly(call.fn, call.features))

\* the call has ended, by a return or by an exception
CallEnded == call.fn \in DistanceFunctions /\ (call.returned \/ call.raised # "none")

\* C12: a call on two dictionaries that do not have the same set of features
\* ends with ShapeMismatchError and returns no number.
C12_ShapeMismatchSignalled ==
    (CallEnded /\ DOMAIN call.customer1 # DOMAIN call.customer2) =>
        ~call.returned /\ call.raised = "ShapeMismatchError"

\* C13: when main() ends with an exception raised before the export, the
\* output file has not been created, and the exception of a customer row
\* lacking a required field is MissingAttributeError.
C13_FailureLeavesNoOutput ==
    main_pc = "ABORTED" =>
        /\ ~output_file.exists
        /\ main_error # "none"
        /\ (csv_fault = "no_column" => main_error = "MissingAttributeError")

\* every failure before the export leaves no output file, whatever its name
FailureLeavesNoFile ==
    main_pc = "ABORTED" => ~output_file.exists /\ output_file.rows = <<>> /\ main_error # "none"

\* a run of main() that exported every row
ExportedEveryRow == main_pc = "DONE" /\ Len(output_file.rows) = N + 1 /\ N = 6

\* the loop of run r is over and the labelling code after it has run
LabellingDone(r) ==
    pc[r] \in {"CONVERGED", "ITERATION_EXHAUSTED"} /\ result[r] # "running"

\* C14: once the loop has reached a terminal state and the labelling has
\* run (1 <= k < N), every Record carries a label in 0..k-1, the index of the
\* cluster that holds it.
C14_LabelsMatchClusters ==
    \A r \in runs :
        (1 <= k /\ k < N /\ LabellingDone(r)) =>
            \A i \in 1..N : /\ label[r][i] \in 0..(k - 1)
                             /\ i \in Range(clusters[r][label[r][i] + 1])

\* the same for the caps of one iteration or more
LabelsMatchClustersFromCapOne ==
    \A r \in runs :
        (1 <= k /\ k < N /\ LabellingDone(r) /\ max_iterations >= 1) =>
            \A i \in 1..N : /\ label[r][i] \in 0..(k - 1)
                             /\ i \in Range(clusters[r][label[r][i] + 1])

\* the run is over the six Records on two equally weighted features, with
\* k = 2 and the default cap of 50
SixRecordRun ==
    /\ k = 2 /\ max_iterations = DefaultMaxIterations
    /\ Len(customers) = Len(SixRecordTenths) /\ customers = UniformScenario(prog)

\* C15: over the six Records (0,0),(0,0.1),(1,1),(0.9,1),(0.5,0.5),(0.5,0.5)
\* with two equally weighted features, k = 2 and cap 50, the run enters at
\* most 2 iterations, does not raise, does not exhaust the cap, and returns
\* from CONVERGED with the clusters {0,1,4,5} and {2,3}.
C15_SixRecordScenario ==
    SixRecordRun =>
        \A r \in runs :
            /\ iteration[r] <= 2
            /\ result[r] # "raised" /\ pc[r] # "ITERATION_EXHAUSTED"
            /\ result[r] = "returned" =>
                   /\ pc[r] = "CONVERGED"
                   /\ clusters[r] = << <<1, 2, 5, 6>>, <<3, 4>> >>
                   /\ label[r] = <<0, 0, 1, 1, 0, 0>>

\* C15 witness: the run over the six Records has returned after its second iteration.
C15_Witness ==
    SixRecordRun /\ \E r \in runs : result[r] = "returned" /\ iteration[r] = 2

\* the clusters of cl that hold Record i
ClustersOf(cl, i) == {c \in 1..Len(cl) : i \in Range(cl[c])}

\* C16: two Records with the same values of the clustering features are in
\* the same cluster after every completed assignment pass and carry the same
\* label, wherever they stand in the population.
C16_IdenticalRecordsTogether ==
    \A r \in runs : \A i, j \in 1..N :
        customers[i] = customers[j] =>
            /\ AssignmentDone(r) => ClustersOf(clusters[r], i) = ClustersOf(clusters[r], j)
            /\ label[r][i] = label[r][j]

\* C16 witness: a returned run in which two equal Records that are not
\* neighbours in the population carry the label 1; another Record carries 0.
C16_Witness ==
    \E r \in runs : \E i, j \in 1..N :
        /\ j > i + 1 /\ customers[i] = customers[j]
        /\ result[r] = "returned" /\ label[r][i] = 1 /\ label[r][j] = 1
        /\ \E m \in 1..N : label[r][m] = 0

\* the update step of run r has run to its end
UpdateDone(r) == pc[r] = "CHECKING" /\ result[r] = "running"

\* cluster i is empty and a later cluster is not
EmptyBeforeNonEmpty(cl, i) == cl[i] = <<>> /\ \E j \in (i + 1)..Len(cl) : cl[j] # <<>>

\* the old centroids differ from one another and from every new mean
CentroidsTellApart(r) ==
    /\ \A i, j \in 1..Len(centroids[r]) : i # j => centroids[r][i] # centroids[r][j]
    /\ \A i, j \in 1..Len(centroids[r]) :
           clusters[r][j] # <<>> => centroids[r][i] # new_centroids[r][j]

JustChecked(r) == iteration[r] >= 1 /\ Len(centroid_log[r]) = iteration[r] + 1

\* a stored centroid value on the normalized scale
OnNormalizedScale(feature, stored) ==
    IF prog = "banking" THEN stored ELSE NormalizedValue(feature, stored)

\* every feature of every centroid moved by 0.01 at most, on the normalized scale
WithinNormalizedTolerance(old, new) ==
    \A i \in 1..k : \A f \in Range(features) :
        ToleranceInv * Abs(OnNormalizedScale(f, old[i][f]) - OnNormalizedScale(f, new[i][f]))
            <= One

\* C18: after an update the loop goes to CONVERGED exactly when every feature
\* of every centroid moved by at most 0.01 on the normalized scale; otherwise
\* it goes on with the next iteration (or stops at the cap).
C18_ConvergedIffWithinTolerance ==
    \A r \in runs :
        JustChecked(r) =>
            LET old == centroid_log[r][Len(centroid_log[r]) - 1]
                new == centroid_log[r][Len(centroid_log[r])]
            IN  /\ pc[r] = "CONVERGED" <=> WithinNormalizedTolerance(old, new)
                /\ pc[r] # "CONVERGED" =>
                       pc[r] = IF iteration[r] < max_iterations THEN "ASSIGNING"
                               ELSE "ITERATION_EXHAUSTED"

\* the same for banking_kmeans alone
ConvergedIffWithinToleranceBanking ==
    prog = "banking" => C18_ConvergedIffWithinTolerance

\* the distance from Record i to the nearest of the Records ids[1..n]
NearestSeedDistance(i, ids, n) ==
    LET ds == {Distance(customers[i], customers[ids[j]]) : j \in 1..n}
    IN  CHOOSE d \in ds : \A e \in ds : d <= e

\* C19: once seeding is over, the first centroid is a copy of the first
\* Record, and every later centroid is a copy of a Record whose distance to
\* the nearest centroid chosen before it is the largest of all Records, the
\* earliest such Record in population order.
C19_GreedyFarthestPoint ==
    \A r \in runs :
        (pc[r] # "INITIALIZING" /\ N >= 1) =>
            /\ Len(seed_ids[r]) >= 1 /\ seed_ids[r][1] = 1
            /\ centroid_log[r][1] = [j \in 1..Len(seed_ids[r]) |-> customers[seed_ids[r][j]]]
            /\ \A j \in 2..Len(seed_ids[r]) :
                   LET far == NearestSeedDistance(seed_ids[r][j], seed_ids[r], j - 1)
                   IN  \A i \in 1..N :
                           LET d == NearestSeedDistance(i, seed_ids[r], j - 1)
                           IN  d <= far /\ (d = far => i >= seed_ids[r][j])

\* C19 witness: three seeds chosen, the second one among two different
\* Records at the same largest distance from the first.
C19_Witness ==
    \E r \in runs :
        /\ pc[r] = "ASSIGNING" /\ Len(seed_ids[r]) = 3
        /\ \E i \in 1..N :
               /\ i > seed_ids[r][2] /\ customers[i] # customers[seed_ids[r][2]]
               /\ Distance(customers[i], customers[1])
                      = Distance(customers[seed_ids[r][2]], customers[1])

\* the assignment pass of run r is complete and `centroids` is still the
\* list it measured against
AssignedAgainstCentroids(r) == pc[r] \in {"UPDATING", "CHECKING"} /\ AssignmentDone(r)

\* C20: after an assignment pass every Record is in the cluster of a
\* centroid at the smallest distance from it, the one of lowest index among
\* the centroids at that distance.
C20_NearestCentroidLowestIndex ==
    \A r \in runs :
        AssignedAgainstCentroids(r) =>
            \A i \in 1..N :
                /\ ClustersOf(clusters[r], i) # {}
                /\ \A c \in ClustersOf(clusters[r], i) :
                       \A j \in 1..Len(centroids[r]) :
                           LET dc == Distance(customers[i], centroids[r][c])
                               dj == Distance(customers[i], centroids[r][j])
                           IN  dc <= dj /\ (dj = dc => c <= j)

\* C20 witness: a Record at the same distance from two different centroids,
\* placed in the cluster of the first.
C20_Witness ==
    \E r \in runs :
        /\ AssignedAgainstCentroids(r) /\ Len(centroids[r]) = 2
        /\ centroids[r][1] # centroids[r][2]
        /\ \E i \in 1..N :
               /\ Distance(customers[i], centroids[r][1])
                      = Distance(customers[i], centroids[r][2])
               /\ i \in Range(clusters[r][1])


\* c is the feature-wise arithmetic mean of the members of cluster, over
\* exactly the clustering features
IsMeanOf(c, cluster) ==
    /\ DOMAIN c = Range(features)
    /\ \A f \in Range(features) :
           Len(cluster) * c[f] = SumSeq([m \in 1..Len(cluster) |-> customers[cluster[m]][f]])

\* C21: after every update step there is one new centroid per cluster, and
\* the one at the index of a non-empty cluster has exactly the clustering
\* features as its keys (none of the other fields of the Records) and, for
\* each of them, the arithmetic mean of the values of that cluster's members.
C21_CentroidIsMeanOverFeatureSet ==
    \A r \in runs :
        UpdateDone(r) =>
            /\ Len(new_centroids[r]) = Len(clusters[r])
            /\ \A i \in 1..Len(clusters[r]) :
                   clusters[r][i] # <<>> => IsMeanOf(new_centroids[r][i], clusters[r][i])

\* C21 witness: an update in which a cluster of three Records that differ
\* got its mean, the Records holding a field outside the clustering features.
C21_Witness ==
    \E r \in runs :
        /\ UpdateDone(r) /\ N = 4
        /\ \E i \in 1..Len(clusters[r]) :
               /\ Len(clusters[r][i]) = 3
               /\ Cardinality({customers[clusters[r][i][m]] : m \in 1..3}) = 3
               /\ DOMAIN customers[1] # DOMAIN new_centroids[r][i]
               /\ IsMeanOf(new_centroids[r][i], clusters[r][i])


\* the centroid list at the end of the previous iteration (after seeding, for
\* the first iteration)
PreviousCentroids(r) == centroid_log[r][Len(centroid_log[r])]

\* every Record placed in cl is in the cluster of the centroid of cents that
\* `distances.index(min(distances))` gives for it
PlacedAgainst(cl, cents) ==
    \A c \in 1..Len(cl) : \A m \in 1..Len(cl[c]) :
        closest_cluster(customers[cl[c][m]], cents) = c - 1

\* what a step of run r does to the centroid list
BarrierStep(r) ==
    /\ (pc[r] = "ASSIGNING" /\ result[r] = "running") =>
           /\ centroids[r] = PreviousCentroids(r)
           /\ centroids'[r] = centroids[r]
           /\ PlacedAgainst(clusters'[r], PreviousCentroids(r))
    /\ pc[r] = "UPDATING" =>
           /\ centroids'[r] = centroids[r]
           /\ clusters'[r] = clusters[r]
    /\ pc[r] = "CHECKING" =>
           /\ centroids'[r] = new_centroids[r]
           /\ new_centroids'[r] = new_centroids[r]
           /\ pc'[r] = "CONVERGED" <=> Converged(centroids[r], new_centroids[r], k)
    /\ centroids'[r] # centroids[r] => pc[r] \in {"INITIALIZING", "CHECKING"}

\* C22: an assignment pass measures every Record against the centroid list
\* as the previous iteration left it and leaves that list as it is; the update
\* builds its centroids in a list of its own and leaves the centroid list and
\* the clusters as they are; the centroid list changes only in the step that
\* follows the update, where the comparison reads the old and the new list and
\* the new list takes the place of the old one as a whole.
C22_BarrierAndWholeReplacement == [][\A r \in runs : BarrierStep(r)]_vars

\* C22 witness: the second assignment pass is complete, it measured against
\* the list the first update produced, and its clusters are not the ones the
\* seed list gives.
C22_Witness ==
    \E r \in runs :
        /\ iteration[r] = 2 /\ pc[r] = "UPDATING" /\ result[r] = "running"
        /\ Len(centroid_log[r]) = 2 /\ centroids[r] = centroid_log[r][2]
        /\ PlacedAgainst(clusters[r], centroid_log[r][2])
        /\ ~PlacedAgainst(clusters[r], centroid_log[r][1])


\* seeding of run r is over and it chose k centroids
SeededK(r) == pc[r] # "INITIALIZING" /\ k >= 1 /\ Len(seed_ids[r]) = k

\* `clusters` of run r holds the result of the first assignment pass
FirstPassDone(r) == iteration[r] = 1 /\ AssignmentDone(r)

\* C23: when seeding chose k centroids, the first assignment pass puts the
\* Record copied as centroid j in cluster j, for every j, so none of its
\* clusters is empty; a pass that leaves a cluster empty is the second or a
\* later one.
C23_NoEmptyClusterInFirstIteration ==
    \A r \in runs :
        SeededK(r) =>
            /\ FirstPassDone(r) =>
                   \A j \in 1..k : /\ seed_ids[r][j] \in Range(clusters[r][j])
                                    /\ clusters[r][j] # <<>>
            /\ (AssignmentDone(r) /\ \E j \in 1..k : clusters[r][j] = <<>>) =>
                   iteration[r] >= 2

\* C23 witness: the first pass over four Records with three seeds, the
\* second seed not being the second Record, every seed in its own cluster.
C23_Witness ==
    \E r \in runs :
        /\ SeededK(r) /\ FirstPassDone(r) /\ pc[r] = "UPDATING"
        /\ k = 3 /\ N = 4 /\ seed_ids[r][2] # 2
        /\ \A j \in 1..k : seed_ids[r][j] \in Range(clusters[r][j])


\* the loop of run r has ended
LoopEnded(r) == pc[r] \in {"CONVERGED", "ITERATION_EXHAUSTED"}

\* what run r holds is what its last executed iteration left: the clusters
\* of that iteration's assignment pass, made against the centroid list the
\* iteration started with; the labels of those clusters; the centroid list
\* that iteration's update produced, each centroid of a non-empty cluster
\* being the mean of that cluster's members
FromLastIteration(r) ==
    /\ iteration[r] >= 1 /\ Len(centroid_log[r]) = iteration[r] + 1
    /\ PlacedAgainst(clusters[r], centroid_log[r][iteration[r]])
    /\ \A i \in 1..N : /\ label[r][i] \in 0..(Len(clusters[r]) - 1)
                       /\ i \in Range(clusters[r][label[r][i] + 1])
    /\ centroids[r] = centroid_log[r][iteration[r] + 1]
    /\ \A j \in 1..Len(clusters[r]) :
           clusters[r][j] # <<>> => IsMeanOf(centroids[r][j], clusters[r][j])

\* a step of run r once its loop has ended: no iteration is entered, and
\* clusters and centroids stay as they are
FinalStep(r) ==
    LoopEnded(r) =>
        /\ iteration'[r] = iteration[r] /\ pc'[r] = pc[r]
        /\ clusters'[r] = clusters[r] /\ centroids'[r] = centroids[r]

\* a run that has returned did so after the end of its loop, with what its
\* last executed iteration left
ReturnedFromLoop(r) == result[r] = "returned" => LoopEnded(r) /\ FromLastIteration(r)

\* C24: after the loop has ended no assignment pass is made; the clusters and
\* labels returned are those of the last executed iteration's assignment
\* pass, made against the centroids that iteration started with, and the
\* centroids returned are the ones that iteration's update produced from those
\* clusters, so the centroid of every returned non-empty cluster is the mean
\* of its returned members.
C24_ReturnedFromLastIteration ==
    /\ [](\A r \in runs : ReturnedFromLoop(r))
    /\ [][\A r \in runs : FinalStep(r)]_vars

\* C24 witness: a run returned at the cap of one iteration; the centroid of
\* every returned non-empty cluster is the mean of its members, and a Record
\* is closer to a returned centroid other than the one of its cluster.
C24_Witness ==
    \E r \in runs :
        /\ result[r] = "returned" /\ pc[r] = "ITERATION_EXHAUSTED"
        /\ FromLastIteration(r)
        /\ ~PlacedAgainst(clusters[r], centroids[r])

====
